---- MODULE Spec2Model ----
(***************************************************************************)
(* Model of pdf_to_text.py: the page decision engine (_should_ocr), the    *)
(* text reconciler (_merge_page_text, _normalize_line), the page pipeline  *)
(* (extract_pdf_text) and the command-line driver (main).                  *)
(*                                                                         *)
(* A Python str is a sequence of one-character strings.  The str methods   *)
(* the program calls (strip, lstrip, split, splitlines, lower, join) and   *)
(* difflib.SequenceMatcher.ratio are operators that compute what the       *)
(* library computes.  SequenceMatcher's popularity heuristic only applies  *)
(* to second arguments of 200 or more characters, beyond every text used   *)
(* here, so b2j holds every character.                                     *)
(***************************************************************************)
EXTENDS Integers, Sequences, FiniteSets, TLC

(***************************************************************************)
(* Bounds of the model.                                                    *)
(***************************************************************************)
MaxPages == 2
MaxNativeLen == 2
MaxOcrLen == 3

(***************************************************************************)
(* Characters.                                                             *)
(***************************************************************************)
\* characters for which str.isspace() holds (those of the modelled alphabet)
Whitespace == {" ", "\t", "\n", "\r", "\f"}

\* line boundaries of str.splitlines() (those of the modelled alphabet)
LineBreaks == {"\n", "\r", "\f"}

UpperCase == <<"A", "B", "C", "D", "E", "F", "G", "H", "I", "J", "K", "L", "M",
               "N", "O", "P", "Q", "R", "S", "T", "U", "V", "W", "X", "Y", "Z">>

LowerCase == <<"a", "b", "c", "d", "e", "f", "g", "h", "i", "j", "k", "l", "m",
               "n", "o", "p", "q", "r", "s", "t", "u", "v", "w", "x", "y", "z">>

Digits == <<"0", "1", "2", "3", "4", "5", "6", "7", "8", "9">>

\* str.lower() on one character
LowerChar(c) ==
    IF \E k \in 1..Len(UpperCase) : UpperCase[k] = c
    THEN LowerCase[CHOOSE k \in 1..Len(UpperCase) : UpperCase[k] = c]
    ELSE c

\* str.lower()
Lower(s) == [k \in 1..Len(s) |-> LowerChar(s[k])]

\* str.lstrip()
Lstrip(s) ==
    IF \A k \in 1..Len(s) : s[k] \in Whitespace
    THEN <<>>
    ELSE LET first == CHOOSE i \in 1..Len(s) :
                          /\ s[i] \notin Whitespace
                          /\ \A j \in 1..(i - 1) : s[j] \in Whitespace
         IN  SubSeq(s, first, Len(s))

\* str.rstrip()
Rstrip(s) ==
    IF \A k \in 1..Len(s) : s[k] \in Whitespace
    THEN <<>>
    ELSE LET last == CHOOSE i \in 1..Len(s) :
                         /\ s[i] \notin Whitespace
                         /\ \A j \in (i + 1)..Len(s) : s[j] \in Whitespace
         IN  SubSeq(s, 1, last)

\* str.strip()
Strip(s) == Rstrip(Lstrip(s))

\* str.split() with no separator: the maximal runs of non-whitespace
RECURSIVE Split(_)
Split(s) ==
    LET t == Lstrip(s)
    IN  IF t = <<>>
        THEN <<>>
        ELSE LET n == IF \E i \in 1..Len(t) : t[i] \in Whitespace
                      THEN (CHOOSE i \in 1..Len(t) :
                               /\ t[i] \in Whitespace
                               /\ \A j \in 1..(i - 1) : t[j] \notin Whitespace) - 1
                      ELSE Len(t)
             IN  <<SubSeq(t, 1, n)>> \o Split(SubSeq(t, n + 1, Len(t)))

\* sep.join(parts)
RECURSIVE Join(_, _)
Join(sep, parts) ==
    IF parts = <<>>
    THEN <<>>
    ELSE IF Len(parts) = 1
         THEN parts[1]
         ELSE parts[1] \o sep \o Join(sep, Tail(parts))

\* str.splitlines(): "\r\n" is one boundary, no empty last line
RECURSIVE SplitLines(_)
SplitLines(s) ==
    IF s = <<>>
    THEN <<>>
    ELSE IF \A k \in 1..Len(s) : s[k] \notin LineBreaks
         THEN <<s>>
         ELSE LET i == CHOOSE k \in 1..Len(s) :
                           /\ s[k] \in LineBreaks
                           /\ \A j \in 1..(k - 1) : s[j] \notin LineBreaks
                  adv == IF s[i] = "\r" /\ i < Len(s) /\ s[i + 1] = "\n"
                         THEN 2 ELSE 1
              IN  <<SubSeq(s, 1, i - 1)>> \o SplitLines(SubSeq(s, i + adv, Len(s)))

\* str(n) for a non-negative integer
RECURSIVE Str(_)
Str(n) ==
    IF n < 10
    THEN <<Digits[n + 1]>>
    ELSE Str(n \div 10) \o <<Digits[(n % 10) + 1]>>

(***************************************************************************)
(* difflib.SequenceMatcher(None, a, b).ratio()                             *)
(***************************************************************************)
\* length of the common run of a and b that starts at a[i], b[j] and stays
\* inside a[..ahi], b[..bhi] (1-based, inclusive)
RECURSIVE MatchRun(_, _, _, _, _, _)
MatchRun(a, b, i, j, ahi, bhi) ==
    IF i <= ahi /\ j <= bhi /\ a[i] = b[j]
    THEN 1 + MatchRun(a, b, i + 1, j + 1, ahi, bhi)
    ELSE 0

\* find_longest_match: the longest block of a[alo..ahi], b[blo..bhi]; of all
\* longest blocks the one starting earliest in a, and of those the one starting
\* earliest in b.  The result is <<i, j, size>>; size 0 when nothing matches.
find_longest_match(a, b, alo, ahi, blo, bhi) ==
    LET run == [p \in (alo..ahi) \X (blo..bhi) |->
                   MatchRun(a, b, p[1], p[2], ahi, bhi)]
        bestsize == IF DOMAIN run = {}
                    THEN 0
                    ELSE CHOOSE k \in {run[p] : p \in DOMAIN run} :
                             \A p \in DOMAIN run : run[p] <= k
    IN  IF bestsize = 0
        THEN <<alo, blo, 0>>
        ELSE LET besti == CHOOSE i \in alo..ahi :
                              /\ \E j \in blo..bhi : run[<<i, j>>] = bestsize
                              /\ \A i2 \in alo..(i - 1) :
                                     \A j \in blo..bhi : run[<<i2, j>>] < bestsize
                 bestj == CHOOSE j \in blo..bhi :
                              /\ run[<<besti, j>>] = bestsize
                              /\ \A j2 \in blo..(j - 1) : run[<<besti, j2>>] < bestsize
             IN  <<besti, bestj, bestsize>>

\* get_matching_blocks, summed: the total size of the matching blocks found by
\* taking the longest match and recursing into the pieces left and right of it
RECURSIVE MatchedSize(_, _, _, _, _, _)
MatchedSize(a, b, alo, ahi, blo, bhi) ==
    IF alo > ahi \/ blo > bhi
    THEN 0
    ELSE LET m == find_longest_match(a, b, alo, ahi, blo, bhi)
             i == m[1]
             j == m[2]
             k == m[3]
         IN  IF k = 0
             THEN 0
             ELSE MatchedSize(a, b, alo, i - 1, blo, j - 1)
                  + k
                  + MatchedSize(a, b, i + k, ahi, j + k, bhi)

\* ratio(): 2.0 * matches / (len(a) + len(b)), and 1.0 for two empty strings;
\* kept as the exact fraction num/den
ratio(a, b) ==
    IF Len(a) + Len(b) = 0
    THEN [num |-> 1, den |-> 1]
    ELSE [num |-> 2 * MatchedSize(a, b, 1, Len(a), 1, Len(b)),
          den |-> Len(a) + Len(b)]

(***************************************************************************)
(* The text reconciler.                                                    *)
(***************************************************************************)
\* the similarity threshold 0.9 as the fraction ThresholdNum/ThresholdDen
ThresholdNum == 9
ThresholdDen == 10

\* a line whose normalized form is shorter than this is never added
MinLineLen == 3

\* "\n\n[OCR additions]\n"
Separator == <<"\n", "\n", "[", "O", "C", "R", " ", "a", "d", "d", "i", "t",
               "i", "o", "n", "s", "]", "\n">>

_normalize_line(text) == Join(<<" ">>, Split(Lower(text)))

\* a mutant of AboveThreshold: the comparison is not strict
AtOrAboveThreshold(r) == r.num * ThresholdDen >= ThresholdNum * r.den

\* similarity > 0.9
AboveThreshold(r) == r.num * ThresholdDen > ThresholdNum * r.den

\* a mutant of ExistingLines: the native lines are not normalized
ExistingLinesRaw(native_text_in) ==
    LET lines == SplitLines(native_text_in)
    IN  {Strip(lines[k]) : k \in {k \in 1..Len(lines) : Strip(lines[k]) # <<>>}}

\* the set comprehension that initialises `existing`
ExistingLines(native_text_in) ==
    LET lines == SplitLines(native_text_in)
    IN  {_normalize_line(lines[k]) : k \in {k \in 1..Len(lines) : Strip(lines[k]) # <<>>}}

\* a mutant of CollectAdditions: an added line is not remembered in `existing`
RECURSIVE CollectAdditionsNoAdd(_, _, _)
CollectAdditionsNoAdd(lines, existing, additions) ==
    IF lines = <<>>
    THEN additions
    ELSE LET clean == Strip(Head(lines))
             normalized == _normalize_line(clean)
         IN  IF clean = <<>> \/ Len(normalized) < MinLineLen \/ normalized \in existing
             THEN CollectAdditionsNoAdd(Tail(lines), existing, additions)
             ELSE CollectAdditionsNoAdd(Tail(lines), existing, Append(additions, clean))

\* the loop over ocr_text.splitlines(): one iteration per call
RECURSIVE CollectAdditions(_, _, _)
CollectAdditions(lines, existing, additions) ==
    IF lines = <<>>
    THEN additions
    ELSE LET clean == Strip(Head(lines))
             normalized == _normalize_line(clean)
         IN  IF clean = <<>>
             THEN CollectAdditions(Tail(lines), existing, additions)
             ELSE IF Len(normalized) < MinLineLen
                  THEN CollectAdditions(Tail(lines), existing, additions)
                  ELSE IF normalized \in existing
                       THEN CollectAdditions(Tail(lines), existing, additions)
                       ELSE CollectAdditions(Tail(lines),
                                             existing \cup {normalized},
                                             Append(additions, clean))

\* the rest of _merge_page_text once both stripped texts are non-empty
MergeNonEmpty(native, ocr) ==
    LET similarity == ratio(_normalize_line(native), _normalize_line(ocr))
    IN  IF AboveThreshold(similarity)
        THEN IF Len(native) >= Len(ocr) THEN native ELSE ocr
        ELSE LET additions == CollectAdditions(SplitLines(ocr),
                                               ExistingLines(native), <<>>)
             IN  IF additions = <<>>
                 THEN native
                 ELSE native \o Separator \o Join(<<"\n">>, additions)

\* a mutant of _merge_page_text: the texts are returned as they came in
_merge_page_text_unstripped(native_text_in, ocr_text_in) ==
    LET native == Strip(native_text_in)
        ocr == Strip(ocr_text_in)
    IN  IF native = <<>>
        THEN ocr_text_in
        ELSE IF ocr = <<>>
             THEN native_text_in
             ELSE MergeNonEmpty(native, ocr)

\* a mutant of _merge_page_text: an empty OCR text empties the page
_merge_page_text_ocr_first(native_text_in, ocr_text_in) ==
    LET native == Strip(native_text_in)
        ocr == Strip(ocr_text_in)
    IN  IF ocr = <<>>
        THEN ocr
        ELSE IF native = <<>>
             THEN ocr
             ELSE MergeNonEmpty(native, ocr)

_merge_page_text(native_text_in, ocr_text_in) ==
    LET native == Strip(native_text_in)
        ocr == Strip(ocr_text_in)
    IN  IF native = <<>>
        THEN ocr
        ELSE IF ocr = <<>>
             THEN native
             ELSE MergeNonEmpty(native, ocr)

(***************************************************************************)
(* The page decision engine.                                               *)
(***************************************************************************)
Modes == {"off", "auto", "force"}

\* the default of --min-chars
DefaultMinChars == 20

\* a mutant of _should_ocr: the threshold itself triggers OCR
_should_ocr_inclusive(page_text_in, mode, minchars, images) ==
    IF mode = "force"
    THEN TRUE
    ELSE IF mode = "off"
         THEN FALSE
         ELSE Len(Join(<<>>, Split(page_text_in))) <= minchars \/ images

_should_ocr(page_text_in, mode, minchars, images) ==
    IF mode = "force"
    THEN TRUE
    ELSE IF mode = "off"
         THEN FALSE
         ELSE Len(Join(<<>>, Split(page_text_in))) < minchars \/ images

(***************************************************************************)
(* Inputs.                                                                 *)
(***************************************************************************)
\* every text of at most n characters over the alphabet S
BoundedTexts(S, n) == UNION {[1..k -> S] : k \in 0..n}

\* a letter, an upper-case letter, a blank and a line break
Alphabet == {"a", "B", " ", "\n"}

QuickNative == <<"T", "h", "e", " ", "q", "u", "i", "c", "k", " ", "b", "r",
                 "o", "w", "n", " ", "f", "o", "x">>

QuickOcr == <<"t", "h", "e", " ", " ", " ", "q", "u", "i", "c", "k", " ", "b",
              "r", "o", "w", "n", " ", "f", "o", "x">>

TenNative == <<"a", "b", "c", "d", "e", "f", "g", "h", "i", "j">>

TenOcr == <<"a", "b", "c", "d", "e", "f", "g", "h", "i", "X">>

LinesNative == <<"L", "i", "n", "e", " ", "o", "n", "e", ".", "\n",
                 "L", "i", "n", "e", " ", "t", "w", "o", ".">>

LinesOcr == <<"L", "i", "n", "e", " ", "o", "n", "e", ".", "\r", "\n",
              "l", "i", "n", "e", " ", " ", "T", "W", "O", ".", "\n",
              "a", "\n", "1", "2", "\n",
              "N", "e", "w", " ", "t", "e", "x", "t", "\n",
              " ", "n", "e", "w", " ", " ", "T", "E", "X", "T", " ", "\n",
              "E", "n", "d", ".", "\n", "\f">>

HeadingOcr == <<"[", "O", "C", "R", " ", "a", "d", "d", "i", "t", "i", "o",
                "n", "s", "]", "\n", "\n", "\n", "\n", "\n",
                "[", "O", "C", "R", " ", "a", "d", "d", "i", "t", "i", "o",
                "n", "s", "]">>

MarkerNative == <<"-", "-", "-", " ", "P", "a", "g", "e", " ", "2", " ", "-",
                  "-", "-">>

\* as long as the OCR text "a\nB" and equal to it once normalized
TieNative == <<"a", " ", "B">>

\* 19 and 20 non-blank characters around blanks
Nineteen == <<" ">> \o TenNative \o <<" ", "\n">> \o SubSeq(TenNative, 1, 9)

Twenty == TenNative \o <<" ", "\t">> \o TenNative \o <<"\n">>

\* what page.extract_text() can return to the reconciler
MergeNatives ==
    BoundedTexts(Alphabet, MaxNativeLen)
        \cup {QuickNative, TenNative, LinesNative, TieNative, <<"x">>}

\* what pytesseract.image_to_string() can return to the reconciler
MergeOcrs ==
    BoundedTexts(Alphabet, MaxOcrLen)
        \cup {QuickOcr, TenOcr, LinesOcr, HeadingOcr}

\* the page texts the decision engine is applied to
DecideTexts == BoundedTexts(Alphabet, MaxNativeLen) \cup {Nineteen, Twenty}

\* values of --min-chars
MinCharsValues == {0, 2, 3, DefaultMinChars}

\* what page.extract_text() returns in a run of the pipeline
PageNatives == {<<>>, <<" ", "a", "B", "\n">>, MarkerNative}

\* what the OCR capability returns in a run of the pipeline
PageOcrs == {<<>>, <<"a", "b">>, <<" ", "N", "e", "w", "\n", "\f">>}

\* what can go wrong in _ocr_pdf_page
OcrErrors == {"OCR dependencies are missing", "Tesseract binary not found", "render failed"}

\* what can go wrong in extract_pdf_text outside the OCR call
ExtractErrors == {"Missing dependency 'pypdf'", "cannot read PDF"}

(***************************************************************************)
(* State.                                                                  *)
(***************************************************************************)
\* an optional value: None, or Some(x)
None == <<>>
Some(x) == <<x>>

\* no message on standard error
NoMessage == "none"

VARIABLES
    pc,           \* position of the program
    ocr_mode,     \* args.ocr
    min_chars,    \* args.min_chars
    num_pages,    \* len(reader.pages)
    index,        \* the loop variable of extract_pdf_text
    native_text,  \* page.extract_text() or ""
    has_images,   \* _page_has_images(page)
    ocr_text,     \* the OCR capability's result for the page
    page_text,    \* the page's final text
    chunks,       \* the list of page segments
    text,         \* the value returned by extract_pdf_text, or None
    output_file,  \* the contents of the output file, or None
    exit_code,    \* the exit status, or None while running
    stderr,       \* the message of parser.error, or NoMessage
    ocr_calls,    \* the page_index arguments of the calls of _ocr_pdf_page
    page_log,     \* per page handled: its inputs, whether OCR ran, its final text
    decision,     \* the value returned by _should_ocr, or None
    remerged,     \* the value returned by a second reconciliation, or None
    raised        \* an exception was raised inside extract_pdf_text

vars == <<pc, ocr_mode, min_chars, num_pages, index, native_text, has_images,
          ocr_text, page_text, chunks, text, output_file, exit_code, stderr,
          ocr_calls, page_log, decision, remerged, raised>>

\* a mutant of Marker: pages are numbered from 0
MarkerZeroBased(k) ==
    <<"\n", "\n", "-", "-", "-", " ", "P", "a", "g", "e", " ">>
        \o Str(k - 1) \o <<" ", "-", "-", "-", "\n", "\n">>

\* f"\n\n--- Page {index} ---\n\n"
Marker(k) ==
    <<"\n", "\n", "-", "-", "-", " ", "P", "a", "g", "e", " ">>
        \o Str(k) \o <<" ", "-", "-", "-", "\n", "\n">>

(***************************************************************************)
(* The run of main(): Spec.                                                *)
(***************************************************************************)
Init ==
    /\ pc = "main"
    /\ ocr_mode \in Modes
    /\ min_chars \in MinCharsValues
    /\ num_pages \in 0..MaxPages
    /\ index = 0
    /\ native_text = <<>>
    /\ has_images = FALSE
    /\ ocr_text = <<>>
    /\ page_text = <<>>
    /\ chunks = <<>>
    /\ text = None
    /\ output_file = None
    /\ exit_code = None
    /\ stderr = NoMessage
    /\ ocr_calls = <<>>
    /\ page_log = <<>>
    /\ decision = None
    /\ remerged = None
    /\ raised = FALSE

\* parser.error(message): the message goes to standard error, exit status 2
ParserError(message) ==
    /\ stderr' = message
    /\ exit_code' = Some(2)
    /\ pc' = "exit"

\* main: the input path does not exist or is not a file
InputMissing ==
    /\ pc = "main"
    /\ ParserError("Input PDF does not exist or is not a file")
    /\ UNCHANGED <<ocr_mode, min_chars, num_pages, index, native_text,
                   has_images, ocr_text, page_text, chunks, text, output_file,
                   ocr_calls, page_log, decision, remerged, raised>>

\* main calls extract_pdf_text, which imports pypdf and opens the reader
OpenReader ==
    /\ pc = "main"
    /\ pc' = "loop"
    /\ UNCHANGED <<ocr_mode, min_chars, num_pages, index, native_text,
                   has_images, ocr_text, page_text, chunks, text, output_file,
                   exit_code, stderr, ocr_calls, page_log, decision, remerged, raised>>

\* the import of pypdf or PdfReader(...) raises; main's handler reports it
OpenReaderRaises ==
    /\ pc = "main"
    /\ \E e \in ExtractErrors : ParserError(e)
    /\ raised' = TRUE
    /\ UNCHANGED <<ocr_mode, min_chars, num_pages, index, native_text,
                   has_images, ocr_text, page_text, chunks, text, output_file,
                   ocr_calls, page_log, decision, remerged>>

\* the loop takes the next page and reads its text and its image flag
ExaminePage ==
    /\ pc = "loop"
    /\ index < num_pages
    /\ index' = index + 1
    /\ \E t \in PageNatives : native_text' = t
    /\ \E b \in BOOLEAN : has_images' = b
    /\ pc' = "decide"
    /\ UNCHANGED <<ocr_mode, min_chars, num_pages, ocr_text, page_text, chunks,
                   text, output_file, exit_code, stderr, ocr_calls, page_log,
                   decision, remerged, raised>>

\* page.extract_text() raises; main's handler reports it
ExtractTextRaises ==
    /\ pc = "loop"
    /\ index < num_pages
    /\ index' = index + 1
    /\ ParserError("cannot read PDF")
    /\ raised' = TRUE
    /\ UNCHANGED <<ocr_mode, min_chars, num_pages, native_text, has_images,
                   ocr_text, page_text, chunks, text, output_file, ocr_calls,
                   page_log, decision, remerged>>

\* _should_ocr is false: the page's text is the native text
SkipOcr ==
    /\ pc = "decide"
    /\ ~_should_ocr(native_text, ocr_mode, min_chars, has_images)
    /\ page_text' = native_text
    /\ chunks' = Append(chunks, Marker(index) \o page_text')
    /\ page_log' = Append(page_log,
                          [index |-> index, native_text |-> native_text,
                           has_images |-> has_images, ocr |-> FALSE,
                           ocr_text |-> <<>>, page_text |-> page_text'])
    /\ pc' = "loop"
    /\ UNCHANGED <<ocr_mode, min_chars, num_pages, index, native_text,
                   has_images, ocr_text, text, output_file, exit_code, stderr,
                   ocr_calls, decision, remerged, raised>>

\* a mutant of CallOcr: the 1-based index is passed
CallOcrOneBased ==
    /\ pc = "decide"
    /\ _should_ocr(native_text, ocr_mode, min_chars, has_images)
    /\ ocr_calls' = Append(ocr_calls, index)
    /\ pc' = "ocr"
    /\ UNCHANGED <<ocr_mode, min_chars, num_pages, index, native_text,
                   has_images, ocr_text, page_text, chunks, text, output_file,
                   exit_code, stderr, page_log, decision, remerged, raised>>

\* _should_ocr is true: _ocr_pdf_page is called with the 0-based page index
CallOcr ==
    /\ pc = "decide"
    /\ _should_ocr(native_text, ocr_mode, min_chars, has_images)
    /\ ocr_calls' = Append(ocr_calls, index - 1)
    /\ pc' = "ocr"
    /\ UNCHANGED <<ocr_mode, min_chars, num_pages, index, native_text,
                   has_images, ocr_text, page_text, chunks, text, output_file,
                   exit_code, stderr, page_log, decision, remerged, raised>>

\* _ocr_pdf_page returns; the page's text is the reconciled text
OcrReturns ==
    /\ pc = "ocr"
    /\ \E t \in PageOcrs :
          /\ ocr_text' = t
          /\ page_text' = _merge_page_text(native_text, t)
    /\ chunks' = Append(chunks, Marker(index) \o page_text')
    /\ page_log' = Append(page_log,
                          [index |-> index, native_text |-> native_text,
                           has_images |-> has_images, ocr |-> TRUE,
                           ocr_text |-> ocr_text', page_text |-> page_text'])
    /\ pc' = "loop"
    /\ UNCHANGED <<ocr_mode, min_chars, num_pages, index, native_text,
                   has_images, text, output_file, exit_code, stderr, ocr_calls,
                   decision, remerged, raised>>

\* a mutant of OcrRaises: the loop catches the exception, leaves the page
\* empty and goes on
OcrRaisesSkipped ==
    /\ pc = "ocr"
    /\ raised' = TRUE
    /\ page_text' = <<>>
    /\ chunks' = Append(chunks, Marker(index))
    /\ page_log' = Append(page_log,
                          [index |-> index, native_text |-> native_text,
                           has_images |-> has_images, ocr |-> TRUE,
                           ocr_text |-> <<>>, page_text |-> <<>>])
    /\ pc' = "loop"
    /\ UNCHANGED <<ocr_mode, min_chars, num_pages, index, native_text,
                   has_images, ocr_text, text, output_file, exit_code, stderr,
                   ocr_calls, decision, remerged>>

\* _ocr_pdf_page raises; nothing in the loop catches it, main's handler does
OcrRaises ==
    /\ pc = "ocr"
    /\ \E e \in OcrErrors : ParserError(e)
    /\ raised' = TRUE
    /\ UNCHANGED <<ocr_mode, min_chars, num_pages, index, native_text,
                   has_images, ocr_text, page_text, chunks, text, output_file,
                   ocr_calls, page_log, decision, remerged>>

\* the loop is over: extract_pdf_text returns "".join(chunks).lstrip()
ReturnText ==
    /\ pc = "loop"
    /\ index = num_pages
    /\ text' = Some(Lstrip(Join(<<>>, chunks)))
    /\ pc' = "write"
    /\ UNCHANGED <<ocr_mode, min_chars, num_pages, index, native_text,
                   has_images, ocr_text, page_text, chunks, output_file,
                   exit_code, stderr, ocr_calls, page_log, decision, remerged, raised>>

\* main writes the output file, prints the confirmation and returns 0
WriteOutput ==
    /\ pc = "write"
    /\ output_file' = text
    /\ exit_code' = Some(0)
    /\ pc' = "exit"
    /\ UNCHANGED <<ocr_mode, min_chars, num_pages, index, native_text,
                   has_images, ocr_text, page_text, chunks, text, stderr,
                   ocr_calls, page_log, decision, remerged, raised>>

\* write_text raises outside main's handler: the file could not be opened, or
\* it was opened (and truncated) and the text could not be encoded
WriteRaises ==
    /\ pc = "write"
    /\ \E f \in {None, Some(<<>>)} : output_file' = f
    /\ exit_code' = Some(1)
    /\ pc' = "exit"
    /\ UNCHANGED <<ocr_mode, min_chars, num_pages, index, native_text,
                   has_images, ocr_text, page_text, chunks, text, stderr,
                   ocr_calls, page_log, decision, remerged, raised>>

Next ==
    \/ InputMissing
    \/ OpenReader
    \/ OpenReaderRaises
    \/ ExaminePage
    \/ ExtractTextRaises
    \/ SkipOcr
    \/ CallOcr
    \/ OcrReturns
    \/ OcrRaises
    \/ ReturnText
    \/ WriteOutput
    \/ WriteRaises

Spec == Init /\ [][Next]_vars

(***************************************************************************)
(* The reconciler applied to a pair of texts, twice: SpecMerge.            *)
(***************************************************************************)
InitMerge ==
    /\ pc = "call"
    /\ native_text \in MergeNatives
    /\ ocr_text \in MergeOcrs
    /\ page_text = <<>>
    /\ remerged = None
    /\ raised = FALSE
    /\ decision = None
    /\ ocr_mode = "force"
    /\ min_chars = DefaultMinChars
    /\ has_images = FALSE
    /\ num_pages = 0
    /\ index = 0
    /\ chunks = <<>>
    /\ text = None
    /\ output_file = None
    /\ exit_code = None
    /\ stderr = NoMessage
    /\ ocr_calls = <<>>
    /\ page_log = <<>>

\* page_text = _merge_page_text(native_text=native_text, ocr_text=ocr_text)
Reconcile ==
    /\ pc = "call"
    /\ page_text' = _merge_page_text(native_text, ocr_text)
    /\ pc' = "merged"
    /\ UNCHANGED <<ocr_mode, min_chars, num_pages, index, native_text,
                   has_images, ocr_text, chunks, text, output_file, exit_code,
                   stderr, ocr_calls, page_log, decision, remerged, raised>>

\* the merged text is reconciled with the same OCR text once more
ReconcileAgain ==
    /\ pc = "merged"
    /\ remerged' = Some(_merge_page_text(page_text, ocr_text))
    /\ pc' = "remerged"
    /\ UNCHANGED <<ocr_mode, min_chars, num_pages, index, native_text,
                   has_images, ocr_text, page_text, chunks, text, output_file,
                   exit_code, stderr, ocr_calls, page_log, decision, raised>>

NextMerge ==
    \/ Reconcile
    \/ ReconcileAgain

SpecMerge == InitMerge /\ [][NextMerge]_vars

(***************************************************************************)
(* The decision engine applied to one page: SpecDecide.                    *)
(***************************************************************************)
InitDecide ==
    /\ pc = "call"
    /\ native_text \in DecideTexts
    /\ has_images \in BOOLEAN
    /\ ocr_mode \in Modes
    /\ min_chars \in MinCharsValues
    /\ decision = None
    /\ ocr_text = <<>>
    /\ page_text = <<>>
    /\ remerged = None
    /\ raised = FALSE
    /\ num_pages = 0
    /\ index = 0
    /\ chunks = <<>>
    /\ text = None
    /\ output_file = None
    /\ exit_code = None
    /\ stderr = NoMessage
    /\ ocr_calls = <<>>
    /\ page_log = <<>>

\* _should_ocr(native_text, ocr_mode=..., min_chars=..., has_images=...)
Decide ==
    /\ pc = "call"
    /\ decision' = Some(_should_ocr(native_text, ocr_mode, min_chars, has_images))
    /\ pc' = "decided"
    /\ UNCHANGED <<ocr_mode, min_chars, num_pages, index, native_text,
                   has_images, ocr_text, page_text, chunks, text, output_file,
                   exit_code, stderr, ocr_calls, page_log, remerged, raised>>

NextDecide == Decide

SpecDecide == InitDecide /\ [][NextDecide]_vars

(***************************************************************************)
(* Vocabulary of the properties.                                           *)
(***************************************************************************)
\* the number of characters of s that are not whitespace
NonSpaceCount(s) == Cardinality({k \in 1..Len(s) : s[k] \notin Whitespace})

\* p is a prefix of s
IsPrefix(p, s) == Len(p) <= Len(s) /\ SubSeq(s, 1, Len(p)) = p

\* p occurs in s at position k
OccursAt(p, s, k) == k + Len(p) - 1 <= Len(s) /\ SubSeq(s, k, k + Len(p) - 1) = p

\* p occurs somewhere in s
Contains(p, s) == \E k \in 1..Len(s) : OccursAt(p, s, k)

\* the reconciler has returned
Merged == pc \in {"merged", "remerged"}

\* both texts of the reconciler are non-empty once trimmed
BothPresent == Strip(native_text) # <<>> /\ Strip(ocr_text) # <<>>

\* the similarity ratio of the two trimmed texts, normalized
Similarity == ratio(_normalize_line(Strip(native_text)), _normalize_line(Strip(ocr_text)))

\* the trimmed lines of the trimmed OCR text
OcrLines ==
    LET lines == SplitLines(Strip(ocr_text))
    IN  [k \in 1..Len(lines) |-> Strip(lines[k])]

\* the normalized forms of the non-blank lines of the trimmed native text
NativeForms ==
    LET lines == SplitLines(Strip(native_text))
    IN  {_normalize_line(lines[k]) : k \in {j \in 1..Len(lines) : Strip(lines[j]) # <<>>}}

\* OCR line k is a candidate that survives every filter
Survives(k) ==
    /\ OcrLines[k] # <<>>
    /\ Len(_normalize_line(OcrLines[k])) >= 3
    /\ _normalize_line(OcrLines[k]) \notin NativeForms
    /\ \A j \in 1..(k - 1) : _normalize_line(OcrLines[j]) # _normalize_line(OcrLines[k])

\* the surviving OCR lines in OCR's order
Survivors ==
    LET keep == {k \in 1..Len(OcrLines) : Survives(k)}
        nth(i) == CHOOSE k \in keep : Cardinality({j \in keep : j <= k}) = i
    IN  [i \in 1..Cardinality(keep) |-> OcrLines[nth(i)]]

\* the trimmed native text, then the separator and the survivors if there are any
ExpectedAdditive ==
    IF Survivors = <<>>
    THEN Strip(native_text)
    ELSE Strip(native_text)
             \o <<"\n", "\n", "[", "O", "C", "R", " ", "a", "d", "d", "i", "t",
                  "i", "o", "n", "s", "]", "\n">>
             \o Join(<<"\n">>, Survivors)

ReconcilerIdentity ==
    Merged =>
        /\ (Strip(native_text) # <<>> /\ Strip(ocr_text) = <<>>
                => page_text = Strip(native_text))
        /\ (Strip(native_text) = <<>> => page_text = Strip(ocr_text))

\* a whitespace-only native text and an OCR text with whitespace around it
ReconcilerIdentityWitness ==
    /\ Merged
    /\ native_text # <<>>
    /\ Strip(native_text) = <<>>
    /\ Strip(ocr_text) # <<>>
    /\ Strip(ocr_text) # ocr_text
    /\ page_text = Strip(ocr_text)

(***************************************************************************)
(* C3: when both trimmed texts are non-empty and the similarity of their   *)
(* normalized forms is above 0.9 the reconciler returns the longer trimmed *)
(* text, the native one on equal length; at exactly 0.9 it does not: it    *)
(* returns the additive merge.                                             *)
(***************************************************************************)
NearDuplicateRule ==
    Merged /\ BothPresent =>
        /\ (10 * Similarity.num > 9 * Similarity.den
                => page_text = IF Len(Strip(native_text)) >= Len(Strip(ocr_text))
                               THEN Strip(native_text)
                               ELSE Strip(ocr_text))
        /\ (10 * Similarity.num = 9 * Similarity.den
                => page_text = ExpectedAdditive)

\* the texts differ, agree above 0.9, and the longer OCR text is returned
NearDuplicateWitness ==
    /\ Merged
    /\ BothPresent
    /\ 10 * Similarity.num > 9 * Similarity.den
    /\ Len(Strip(ocr_text)) > Len(Strip(native_text))
    /\ page_text = Strip(ocr_text)
    /\ page_text # Strip(native_text)

(***************************************************************************)
(* C4: when both trimmed texts are non-empty and the similarity is at most *)
(* 0.9 the result is the trimmed native text, followed, if any OCR line    *)
(* survives, by the separator and the surviving lines joined by newline;   *)
(* the survivors are the trimmed OCR lines, in order, that are non-blank,  *)
(* have a normalized form of at least 3 characters that no non-blank       *)
(* native line has, and are the first OCR line of that normalized form.    *)
(***************************************************************************)
AdditiveMergeRule ==
    Merged /\ BothPresent /\ 10 * Similarity.num <= 9 * Similarity.den
        => page_text = ExpectedAdditive

\* some lines are added in order, others are dropped as short, as known to
\* native, or as a repetition
AdditiveMergeWitness ==
    /\ Merged
    /\ BothPresent
    /\ 10 * Similarity.num <= 9 * Similarity.den
    /\ Len(Survivors) >= 2
    /\ \E k \in 1..Len(OcrLines) :
          OcrLines[k] # <<>> /\ Len(_normalize_line(OcrLines[k])) < 3
    /\ \E k \in 1..Len(OcrLines) :
          OcrLines[k] # <<>> /\ _normalize_line(OcrLines[k]) \in NativeForms
    /\ \E k \in 1..Len(OcrLines) : \E j \in 1..(k - 1) :
          /\ Len(_normalize_line(OcrLines[k])) >= 3
          /\ _normalize_line(OcrLines[k]) \notin NativeForms
          /\ _normalize_line(OcrLines[j]) = _normalize_line(OcrLines[k])
    /\ page_text = ExpectedAdditive
    /\ page_text # Strip(native_text)

(***************************************************************************)
(* C5: reconciling the merged text with the same OCR text once more does   *)
(* not duplicate the additions: the second pass appends no separator and   *)
(* no line to the merged text; its result is the merged text or the        *)
(* trimmed OCR text.                                                       *)
(***************************************************************************)
NoDuplicateAdditions ==
    pc = "remerged" =>
        /\ ~IsPrefix(page_text \o Separator, remerged[1])
        /\ \A k \in 1..Len(OcrLines) :
               Survives(k) => ~IsPrefix(page_text \o Separator \o OcrLines[k], remerged[1])
        /\ remerged[1] \in {page_text, Strip(ocr_text)}

\* the first pass added lines and the second pass added nothing
NoDuplicateAdditionsWitness ==
    /\ pc = "remerged"
    /\ BothPresent
    /\ Survivors # <<>>
    /\ IsPrefix(Strip(native_text) \o Separator, page_text)
    /\ remerged = Some(page_text)

(***************************************************************************)
(* C10: reconciling the merged text with the same OCR text once more       *)
(* returns the merged text.                                                *)
(***************************************************************************)
ReconcileFixedPoint == pc = "remerged" => remerged = Some(page_text)

(***************************************************************************)
(* Vocabulary of the properties of a run.                                  *)
(***************************************************************************)
\* "--- Page k ---"
Heading(k) ==
    <<"-", "-", "-", " ", "P", "a", "g", "e", " ">> \o Str(k) \o <<" ", "-", "-", "-">>

\* a page marker, "--- Page <digits> ---", starts at position p of s
IsMarkerAt(s, p) ==
    /\ OccursAt(<<"-", "-", "-", " ", "P", "a", "g", "e", " ">>, s, p)
    /\ \E d \in 1..Len(s) :
          /\ \A q \in (p + 9)..(p + 8 + d) :
                 q <= Len(s) /\ \E c \in 1..Len(Digits) : s[q] = Digits[c]
          /\ OccursAt(<<" ", "-", "-", "-">>, s, p + 9 + d)

\* the number of page markers in s
PageMarkerCount(s) == Cardinality({p \in 1..Len(s) : IsMarkerAt(s, p)})

\* the segments of pages k.. of the log, each behind its marker
RECURSIVE SegmentsFrom(_)
SegmentsFrom(k) ==
    IF k > Len(page_log)
    THEN <<>>
    ELSE <<"\n", "\n">> \o Heading(k) \o <<"\n", "\n">> \o page_log[k].page_text
             \o SegmentsFrom(k + 1)

\* the segments of all pages without the whitespace before the first marker
ExpectedDocument ==
    IF page_log = <<>>
    THEN <<>>
    ELSE Heading(1) \o <<"\n", "\n">> \o page_log[1].page_text \o SegmentsFrom(2)

\* one segment per page, pages 1..N in ascending order, nothing before the
\* first marker and nothing after the last page's text
OneSegmentPerPage ==
    /\ Len(page_log) = num_pages
    /\ Len(chunks) = num_pages
    /\ \A k \in 1..Len(page_log) : page_log[k].index = k
    /\ output_file = Some(ExpectedDocument)
    /\ (num_pages > 0 => IsPrefix(Heading(1), output_file[1]))

\* the OCR capability is being called, or has raised
OcrInFlight == pc = "ocr" \/ (pc = "exit" /\ stderr \in OcrErrors)

\* the 0-based indices of the logged pages k.. for which OCR ran
RECURSIVE LoggedCallsFrom(_)
LoggedCallsFrom(k) ==
    IF k > Len(page_log)
    THEN <<>>
    ELSE (IF page_log[k].ocr THEN <<page_log[k].index - 1>> ELSE <<>>)
             \o LoggedCallsFrom(k + 1)

(***************************************************************************)
(* C6, as amended: a successful run yields one segment per input page,     *)
(* page k's text behind the marker "\n\n--- Page k ---\n\n", k = 1..N in   *)
(* ascending order, without the whitespace before the first marker and     *)
(* with nothing after the last page's text; the output contains exactly N  *)
(* page markers when no page's text contains a page marker itself.         *)
(***************************************************************************)
DocumentStructure ==
    exit_code = Some(0) =>
        /\ OneSegmentPerPage
        /\ ((\A k \in 1..Len(page_log) : PageMarkerCount(page_log[k].page_text) = 0)
                => PageMarkerCount(output_file[1]) = num_pages)

\* two pages, texts without markers, written out behind two markers
DocumentStructureWitness ==
    /\ exit_code = Some(0)
    /\ num_pages = 2
    /\ \A k \in 1..Len(page_log) :
          page_log[k].page_text # <<>> /\ PageMarkerCount(page_log[k].page_text) = 0
    /\ PageMarkerCount(output_file[1]) = 2
    /\ IsPrefix(Heading(1), output_file[1])

(***************************************************************************)
(* C6, as claimed: a successful run yields one segment per input page      *)
(* behind its marker, and the output contains exactly N page markers       *)
(* whatever the page texts are.                                            *)
(***************************************************************************)
ExactlyNMarkers ==
    exit_code = Some(0) =>
        /\ OneSegmentPerPage
        /\ PageMarkerCount(output_file[1]) = num_pages

(***************************************************************************)
(* C7, as amended: a page without native text for which OCR runs has the   *)
(* OCR capability's output, trimmed of leading and trailing whitespace, as *)
(* its text.                                                               *)
(***************************************************************************)
OcrTextTrimmed ==
    \A k \in 1..Len(page_log) :
        page_log[k].native_text = <<>> /\ page_log[k].ocr =>
            /\ page_log[k].page_text = Strip(page_log[k].ocr_text)
            /\ chunks[k] = <<"\n", "\n">> \o Heading(k) \o <<"\n", "\n">>
                               \o Strip(page_log[k].ocr_text)

\* a text-less page whose OCR output has whitespace around it, written out
OcrTextTrimmedWitness ==
    /\ exit_code = Some(0)
    /\ \E k \in 1..Len(page_log) :
          /\ page_log[k].native_text = <<>>
          /\ page_log[k].ocr
          /\ Strip(page_log[k].ocr_text) # page_log[k].ocr_text
          /\ page_log[k].page_text = Strip(page_log[k].ocr_text)
          /\ page_log[k].page_text # <<>>

(***************************************************************************)
(* C7, as claimed: a page without native text for which OCR runs has       *)
(* exactly the OCR capability's output as its text.                        *)
(***************************************************************************)
OcrTextVerbatim ==
    \A k \in 1..Len(page_log) :
        page_log[k].native_text = <<>> /\ page_log[k].ocr =>
            page_log[k].page_text = page_log[k].ocr_text

InvocationDiscipline ==
    /\ \A k \in 1..Len(page_log) :
          /\ page_log[k].index = k
          /\ page_log[k].ocr = _should_ocr(page_log[k].native_text, ocr_mode,
                                           min_chars, page_log[k].has_images)
          /\ (~page_log[k].ocr =>
                 /\ page_log[k].page_text = page_log[k].native_text
                 /\ chunks[k] = <<"\n", "\n">> \o Heading(k) \o <<"\n", "\n">>
                                    \o page_log[k].native_text)
    /\ Len(page_log) \in {index, index - 1}
    /\ (OcrInFlight => _should_ocr(native_text, ocr_mode, min_chars, has_images))
    /\ ocr_calls = LoggedCallsFrom(1) \o (IF OcrInFlight THEN <<index - 1>> ELSE <<>>)
    /\ \A i \in 1..Len(ocr_calls) : \A j \in 1..Len(ocr_calls) :
          i < j => ocr_calls[i] < ocr_calls[j]
    /\ (pc = "decide" => \A i \in 1..Len(ocr_calls) : ocr_calls[i] < index - 1)
    /\ (ocr_mode = "off" => ocr_calls = <<>>)
    /\ (ocr_mode = "force" /\ pc \in {"write", "exit"} /\ ~raised /\ exit_code # Some(2)
            => ocr_calls = [k \in 1..num_pages |-> k - 1])

\* auto mode: page 1 keeps its native text with its whitespace, page 2 only
\* is sent to OCR
InvocationDisciplineWitness ==
    /\ exit_code = Some(0)
    /\ ocr_mode = "auto"
    /\ num_pages = 2
    /\ ocr_calls = <<1>>
    /\ page_log[1].page_text = <<" ", "a", "B", "\n">>
    /\ page_log[2].ocr

====
